---- MODULE Spec2Model ----
(***************************************************************************)
(* generate_template.py: create_template(base_path) walks a nested         *)
(* description of folders and files (build_structure) and realises it on   *)
(* the filesystem, printing one progress line per folder and per file.     *)
(*                                                                         *)
(* Strings are sequences of one-character strings.  A path is the sequence *)
(* of its segments; <<>> is the filesystem root.  The filesystem is the    *)
(* set of directories (dirs) and the map from file paths to their text     *)
(* (files).                                                                *)
(***************************************************************************)
EXTENDS Naturals, Sequences, FiniteSets, TLC

\* Number of entries the filesystem may hold before the first run (besides
\* the root and the ancestors of those entries).
MaxPre == 1
\* Number of successive runs of create_template against the same base path.
MaxRuns == 2
\* Longest file name of the generated one-file templates of SpecAny.
MaxLen == 4

\* ------------------------------------------------------------------------
\* The string literals of the template, in source order.
University ==
    <<"U", "n", "i", "v", "e", "r", "s", "i", "t", "y">>
Semester_1 ==
    <<"S", "e", "m", "e", "s", "t", "e", "r", " ", "1">>
Computer_Science_101 ==
    <<"C", "o", "m", "p", "u", "t", "e", "r", " ", "S", "c", "i", "e", "n", "c", "e", " ", "1", "0", "1">>
Syllabus_md ==
    <<"S", "y", "l", "l", "a", "b", "u", "s", ".", "m", "d">>
Notes_md ==
    <<"N", "o", "t", "e", "s", ".", "m", "d">>
Assignment_1_md ==
    <<"A", "s", "s", "i", "g", "n", "m", "e", "n", "t", "_", "1", ".", "m", "d">>
Mathematics ==
    <<"M", "a", "t", "h", "e", "m", "a", "t", "i", "c", "s">>
Calculus_Notes_md ==
    <<"C", "a", "l", "c", "u", "l", "u", "s", "_", "N", "o", "t", "e", "s", ".", "m", "d">>
Formula_Sheet_md ==
    <<"F", "o", "r", "m", "u", "l", "a", "_", "S", "h", "e", "e", "t", ".", "m", "d">>
Physics ==
    <<"P", "h", "y", "s", "i", "c", "s">>
Lab_Report_md ==
    <<"L", "a", "b", "_", "R", "e", "p", "o", "r", "t", ".", "m", "d">>
Resources ==
    <<"R", "e", "s", "o", "u", "r", "c", "e", "s">>
Library_Links_md ==
    <<"L", "i", "b", "r", "a", "r", "y", "_", "L", "i", "n", "k", "s", ".", "m", "d">>
Student_Handbook_md ==
    <<"S", "t", "u", "d", "e", "n", "t", "_", "H", "a", "n", "d", "b", "o", "o", "k", ".", "m", "d">>
Work ==
    <<"W", "o", "r", "k">>
Projects ==
    <<"P", "r", "o", "j", "e", "c", "t", "s">>
Alpha ==
    <<"A", "l", "p", "h", "a">>
Spec_md ==
    <<"S", "p", "e", "c", ".", "m", "d">>
Timeline_md ==
    <<"T", "i", "m", "e", "l", "i", "n", "e", ".", "m", "d">>
Beta ==
    <<"B", "e", "t", "a">>
Feedback_md ==
    <<"F", "e", "e", "d", "b", "a", "c", "k", ".", "m", "d">>
Meetings ==
    <<"M", "e", "e", "t", "i", "n", "g", "s">>
Weekly_Sync_md ==
    <<"W", "e", "e", "k", "l", "y", "_", "S", "y", "n", "c", ".", "m", "d">>
One_on_One_md ==
    <<"O", "n", "e", "_", "o", "n", "_", "O", "n", "e", ".", "m", "d">>
Admin ==
    <<"A", "d", "m", "i", "n">>
Timesheet_md ==
    <<"T", "i", "m", "e", "s", "h", "e", "e", "t", ".", "m", "d">>
Expenses_md ==
    <<"E", "x", "p", "e", "n", "s", "e", "s", ".", "m", "d">>
Notes ==
    <<"N", "o", "t", "e", "s">>
Reading_List ==
    <<"R", "e", "a", "d", "i", "n", "g", " ", "L", "i", "s", "t">>
Books_to_Read_md ==
    <<"B", "o", "o", "k", "s", "_", "t", "o", "_", "R", "e", "a", "d", ".", "m", "d">>
Articles_md ==
    <<"A", "r", "t", "i", "c", "l", "e", "s", ".", "m", "d">>
Ideas ==
    <<"I", "d", "e", "a", "s">>
App_Idea_md ==
    <<"A", "p", "p", "_", "I", "d", "e", "a", ".", "m", "d">>
Blog_Posts_md ==
    <<"B", "l", "o", "g", "_", "P", "o", "s", "t", "s", ".", "m", "d">>
Journal ==
    <<"J", "o", "u", "r", "n", "a", "l">>
Date_2024_01_01_md ==
    <<"2", "0", "2", "4", "-", "0", "1", "-", "0", "1", ".", "m", "d">>
Archive ==
    <<"A", "r", "c", "h", "i", "v", "e">>

\* A mapping (dict) keeps its insertion order: a sequence of <<name, content>>.
Dict(items) == [type |-> "dict", value |-> items]
\* A list of file names.
List(file_names) == [type |-> "list", value |-> file_names]

template ==
    << <<University, Dict(<<
            <<Semester_1, Dict(<<
                <<Computer_Science_101, List(<<Syllabus_md, Notes_md, Assignment_1_md>>)>>,
                <<Mathematics, List(<<Calculus_Notes_md, Formula_Sheet_md>>)>>,
                <<Physics, List(<<Lab_Report_md>>)>> >>)>>,
            <<Resources, List(<<Library_Links_md, Student_Handbook_md>>)>> >>)>>,
       <<Work, Dict(<<
            <<Projects, Dict(<<
                <<Alpha, List(<<Spec_md, Timeline_md>>)>>,
                <<Beta, List(<<Feedback_md>>)>> >>)>>,
            <<Meetings, List(<<Weekly_Sync_md, One_on_One_md>>)>>,
            <<Admin, List(<<Timesheet_md, Expenses_md>>)>> >>)>>,
       <<Notes, Dict(<<
            <<Reading_List, List(<<Books_to_Read_md, Articles_md>>)>>,
            <<Ideas, List(<<App_Idea_md, Blog_Posts_md>>)>>,
            <<Journal, List(<<Date_2024_01_01_md>>)>> >>)>>,
       <<Archive, Dict(<<>>)>> >>

\* The vault directory the entry point resolves, as one path.
target_vault_dir ==
    << <<"v", "a", "u", "l", "t">> >>

Template_Vault ==
    <<"T", "e", "m", "p", "l", "a", "t", "e", "_", "V", "a", "u", "l", "t">>

\* ------------------------------------------------------------------------
\* Paths.

\* os.path.join(current_path, name), name a single relative segment.
join(current_path, name) == Append(current_path, name)

template_root == join(target_vault_dir, Template_Vault)

\* os.path.split(name)[0]: the parent path.
Front(p) == SubSeq(p, 1, Len(p) - 1)

Last(p) == p[Len(p)]

IsPrefix(p, q) == Len(p) <= Len(q) /\ SubSeq(q, 1, Len(p)) = p

IsProperPrefix(p, q) == Len(p) < Len(q) /\ SubSeq(q, 1, Len(p)) = p

Prefixes(p) == {SubSeq(p, 1, k) : k \in 0..Len(p)}

\* ------------------------------------------------------------------------
\* The placeholder text.

\* str.replace(old, new): every non-overlapping occurrence of old, found
\* scanning from the left, is replaced by new (old is not empty).
RECURSIVE replace(_, _, _)
replace(s, old, new) ==
    IF Len(s) < Len(old) THEN s
    ELSE IF SubSeq(s, 1, Len(old)) = old
         THEN new \o replace(SubSeq(s, Len(old) + 1, Len(s)), old, new)
         ELSE <<Head(s)>> \o replace(Tail(s), old, new)

dot_md == <<".", "m", "d">>

\* file_name.replace('.md', '').replace('_', ' ')
title(file_name) == replace(replace(file_name, dot_md, <<>>), <<"_">>, <<" ">>)

Template_content_for ==
    <<"T", "e", "m", "p", "l", "a", "t", "e", " ", "c", "o", "n", "t", "e", "n", "t", " ", "f", "o", "r", " ">>

\* f"# {title}\n\nTemplate content for {file_name}."
file_text(file_name) ==
    <<"#", " ">> \o title(file_name) \o <<"\n", "\n">>
        \o Template_content_for \o file_name \o <<".">>

\* ------------------------------------------------------------------------
\* The filesystem.

exists(p, D, F) == p \in D \/ p \in DOMAIN F

\* The value of a fault parameter that injects no fault: the root is never
\* the target of a mkdir.
NoFault == <<>>

\* os.mkdir(name) on directories D and files F.  fault is the path whose
\* mkdir the environment fails (permissions, disk space), or NoFault.
mkdir(name, D, F, fault) ==
    IF name = fault THEN [err |-> "fault", dirs |-> D]
    ELSE IF exists(name, D, F) THEN [err |-> "FileExistsError", dirs |-> D]
    ELSE IF Front(name) \notin D THEN [err |-> "NotADirectoryError", dirs |-> D]
    ELSE [err |-> "ok", dirs |-> D \cup {name}]

\* Mutant of isdir: the error of mkdir is swallowed whatever is at name.
isdir_always(name, D, fault) == TRUE

\* os.path.isdir(name); it answers False when the environment fails the path.
isdir(name, D, fault) == name \in D /\ name # fault

\* Mutant of exist_ok: os.makedirs(path), an existing directory is an error.
exist_ok_false == FALSE

\* The keyword argument of both os.makedirs calls.
exist_ok == TRUE

\* os.makedirs(name, exist_ok=exist_ok).  The missing ancestors are created
\* first, outermost first; then mkdir(name), whose error is swallowed only
\* when exist_ok is set and name is a directory.  What was created before an
\* error stays.
RECURSIVE makedirs(_, _, _, _)
makedirs(name, D, F, fault) ==
    LET head == Front(name)
        up == IF Len(head) > 0 /\ ~exists(head, D, F)
              THEN makedirs(head, D, F, fault)
              ELSE [err |-> "ok", dirs |-> D]
        r == mkdir(name, up.dirs, F, fault)
    IN  IF up.err # "ok" THEN up
        ELSE IF r.err # "ok" /\ exist_ok /\ isdir(name, up.dirs, fault)
             THEN [err |-> "ok", dirs |-> up.dirs]
             ELSE r

\* The paths makedirs(name) calls mkdir on: name and its missing ancestors.
MkdirTargets(name, D, F) ==
    {p \in Prefixes(name) : Len(p) > 0 /\ (p = name \/ ~exists(p, D, F))}

Put(F, p, text) == [q \in DOMAIN F \cup {p} |-> IF q = p THEN text ELSE F[q]]

\* Mutant of open_w: open(file_path, "a"), an existing text is kept.
open_a(F, file_path) ==
    IF file_path \in DOMAIN F THEN F ELSE Put(F, file_path, <<>>)

\* open(file_path, "w"): the file is created, or truncated when it exists.
open_w(F, file_path) == Put(F, file_path, <<>>)

\* f.write(text) on the file just opened, then close.
write(F, file_path, text) == Put(F, file_path, F[file_path] \o text)

\* Mutant of open_write: a file whose write failed is removed again.
open_write_unlink(file_path, text, D, F, fault) ==
    IF fault = "open" THEN [err |-> "fault", files |-> F]
    ELSE IF file_path \in D THEN [err |-> "IsADirectoryError", files |-> F]
    ELSE IF Front(file_path) \notin D THEN [err |-> "FileNotFoundError", files |-> F]
    ELSE IF fault = "write"
         THEN [err |-> "fault", files |-> [q \in DOMAIN F \ {file_path} |-> F[q]]]
         ELSE [err |-> "ok", files |-> write(open_w(F, file_path), file_path, text)]

\* with open(file_path, "w") as f: f.write(text).  fault is "open" (the
\* open fails), "write" (the open succeeds, the write or the close fails
\* and nothing of the text is stored) or "none".
open_write(file_path, text, D, F, fault) ==
    IF fault = "open" THEN [err |-> "fault", files |-> F]
    ELSE IF file_path \in D THEN [err |-> "IsADirectoryError", files |-> F]
    ELSE IF Front(file_path) \notin D THEN [err |-> "FileNotFoundError", files |-> F]
    ELSE IF fault = "write" THEN [err |-> "fault", files |-> open_w(F, file_path)]
    ELSE [err |-> "ok", files |-> write(open_w(F, file_path), file_path, text)]

\* ------------------------------------------------------------------------
\* The template seen as sets of paths.

\* Every directory build_structure(current_path, structure) ensures.
RECURSIVE DirPaths(_, _)
DirPaths(current_path, structure) ==
    UNION {
        LET path == join(current_path, structure[k][1])
            content == structure[k][2]
        IN  {path} \cup (IF content.type = "dict"
                         THEN DirPaths(path, content.value) ELSE {})
        : k \in 1..Len(structure) }

\* Every file build_structure(current_path, structure) writes.
RECURSIVE FilePaths(_, _)
FilePaths(current_path, structure) ==
    UNION {
        LET path == join(current_path, structure[k][1])
            content == structure[k][2]
        IN  IF content.type = "dict"
            THEN FilePaths(path, content.value)
            ELSE {join(path, content.value[m]) : m \in 1..Len(content.value)}
        : k \in 1..Len(structure) }

\* ------------------------------------------------------------------------
\* State.

VARIABLES
    dirs,       \* the directories of the filesystem (paths)
    files,      \* the regular files: path -> text
    tmpl,       \* the structure create_template hands to build_structure
    base_path,  \* the argument of create_template
    pc,         \* "idle", "running", "finish", "done" or "aborted"
    stack,      \* the frames of build_structure, innermost last
    out,        \* the lines printed by the current run
    ops,        \* the filesystem operations of the current run, in order
    runs,       \* the number of runs started
    dirs0,      \* dirs when the current run started
    files0      \* files when the current run started

vars == <<dirs, files, tmpl, base_path, pc, stack, out, ops, runs, dirs0, files0>>

\* The innermost frame and the loop variables of its current iteration.
top == stack[Len(stack)]
name == top.structure[top.i][1]
content == top.structure[top.i][2]
path == join(top.current_path, name)
\* Mutant of file_name: the list is walked from its end.
file_name_reversed == content.value[Len(content.value) + 1 - top.j]
file_name == content.value[top.j]
\* Mutant of file_path: the file is put beside its folder, not inside it.
file_path_in_parent == join(top.current_path, file_name)
file_path == join(path, file_name)

SetTop(f) == [stack EXCEPT ![Len(stack)] = f]

At(label) == pc = "running" /\ top.pc = label

Frame(current_path, structure) ==
    [current_path |-> current_path, structure |-> structure,
     i |-> 1, j |-> 0, pc |-> "for"]

\* ------------------------------------------------------------------------
\* create_template and build_structure, one action per statement.

\* print("Starting template generation in ..."); build_structure(base_path, template)
\* The first run, or the next run after a run that finished (a run started
\* after a finished one therefore finds the complete tree).
Start ==
    /\ pc \in {"idle", "done"}
    /\ runs < MaxRuns
    /\ runs' = runs + 1
    /\ dirs0' = dirs
    /\ files0' = files
    /\ out' = <<[kind |-> "Starting template generation in", path |-> base_path]>>
    /\ ops' = <<>>
    /\ stack' = <<Frame(base_path, tmpl)>>
    /\ pc' = "running"
    /\ UNCHANGED <<dirs, files, tmpl, base_path>>

\* for name, content in structure.items(): the next item, dispatched on its type.
ForItem ==
    /\ At("for")
    /\ top.i <= Len(top.structure)
    /\ stack' = SetTop([top EXCEPT !.pc = IF content.type = "dict"
                                          THEN "branch_makedirs"
                                          ELSE "leaf_makedirs"])
    /\ UNCHANGED <<dirs, files, tmpl, base_path, pc, out, ops, runs, dirs0, files0>>

\* The loop is exhausted: build_structure returns to its caller, which goes
\* on with its next item; the outermost call returns to create_template.
Return ==
    /\ At("for")
    /\ top.i > Len(top.structure)
    /\ IF Len(stack) = 1
       THEN /\ stack' = <<>>
            /\ pc' = "finish"
       ELSE LET caller == stack[Len(stack) - 1]
            IN  /\ stack' = [SubSeq(stack, 1, Len(stack) - 1) EXCEPT
                               ![Len(stack) - 1] = [caller EXCEPT !.i = caller.i + 1,
                                                                  !.pc = "for"]]
                /\ pc' = pc
    /\ UNCHANGED <<dirs, files, tmpl, base_path, out, ops, runs, dirs0, files0>>

\* os.makedirs(path, exist_ok=True); an error unwinds every frame.
Makedirs(label, next) ==
    /\ At(label)
    /\ \E fault \in MkdirTargets(path, dirs, files) \cup {NoFault} :
        LET r == makedirs(path, dirs, files, fault)
        IN /\ dirs' = r.dirs
           /\ ops' = Append(ops, [op |-> "makedirs", path |-> path, err |-> r.err])
           /\ IF r.err = "ok"
              THEN /\ stack' = SetTop([top EXCEPT !.pc = next])
                   /\ pc' = pc
              ELSE /\ stack' = <<>>
                   /\ pc' = "aborted"
    /\ UNCHANGED <<files, tmpl, base_path, out, runs, dirs0, files0>>

\* print(f"Created folder: {path}")
PrintFolder(label, next, j) ==
    /\ At(label)
    /\ out' = Append(out, [kind |-> "Created folder", path |-> path])
    /\ stack' = SetTop([top EXCEPT !.pc = next, !.j = j])
    /\ UNCHANGED <<dirs, files, tmpl, base_path, pc, ops, runs, dirs0, files0>>

\* Mutant of BranchMakedirs: the folder of a mapping is left to the
\* makedirs calls of the folders below it.
BranchMakedirs_forgotten ==
    /\ At("branch_makedirs")
    /\ stack' = SetTop([top EXCEPT !.pc = "branch_print"])
    /\ UNCHANGED <<dirs, files, tmpl, base_path, pc, out, ops, runs, dirs0, files0>>

BranchMakedirs == Makedirs("branch_makedirs", "branch_print")

\* Mutant of BranchPrint: no line for the folder of a mapping.
BranchPrint_silent ==
    /\ At("branch_print")
    /\ stack' = SetTop([top EXCEPT !.pc = "recurse"])
    /\ UNCHANGED <<dirs, files, tmpl, base_path, pc, out, ops, runs, dirs0, files0>>

BranchPrint == PrintFolder("branch_print", "recurse", 0)

\* build_structure(path, content)
BranchRecurse ==
    /\ At("recurse")
    /\ stack' = Append(stack, Frame(path, content.value))
    /\ UNCHANGED <<dirs, files, tmpl, base_path, pc, out, ops, runs, dirs0, files0>>

LeafMakedirs == Makedirs("leaf_makedirs", "leaf_print")

LeafPrint == PrintFolder("leaf_print", "files", 1)

\* Mutant of WriteFile: the error of a write is caught and the loop goes on.
WriteFile_swallow ==
    /\ At("files")
    /\ top.j <= Len(content.value)
    /\ \E fault \in {"none", "open", "write"} :
        LET r == open_write(file_path, file_text(file_name), dirs, files, fault)
        IN /\ files' = r.files
           /\ ops' = Append(ops, [op |-> "write", path |-> file_path, err |-> r.err])
           /\ stack' = SetTop([top EXCEPT !.pc = "file_print"])
    /\ UNCHANGED <<dirs, tmpl, base_path, pc, out, runs, dirs0, files0>>

\* with open(file_path, "w") as f: f.write(...)
WriteFile ==
    /\ At("files")
    /\ top.j <= Len(content.value)
    /\ \E fault \in {"none", "open", "write"} :
        LET r == open_write(file_path, file_text(file_name), dirs, files, fault)
        IN /\ files' = r.files
           /\ ops' = Append(ops, [op |-> "write", path |-> file_path, err |-> r.err])
           /\ IF r.err = "ok"
              THEN /\ stack' = SetTop([top EXCEPT !.pc = "file_print"])
                   /\ pc' = pc
              ELSE /\ stack' = <<>>
                   /\ pc' = "aborted"
    /\ UNCHANGED <<dirs, tmpl, base_path, out, runs, dirs0, files0>>

\* print(f"Created file: {file_path}")
FilePrint ==
    /\ At("file_print")
    /\ out' = Append(out, [kind |-> "Created file", path |-> file_path])
    /\ stack' = SetTop([top EXCEPT !.pc = "files", !.j = top.j + 1])
    /\ UNCHANGED <<dirs, files, tmpl, base_path, pc, ops, runs, dirs0, files0>>

\* for file_name in content: exhausted, on to the next item of the mapping.
LeafDone ==
    /\ At("files")
    /\ top.j > Len(content.value)
    /\ stack' = SetTop([top EXCEPT !.pc = "for", !.i = top.i + 1, !.j = 0])
    /\ UNCHANGED <<dirs, files, tmpl, base_path, pc, out, ops, runs, dirs0, files0>>

\* print("Finished generating template.")
Finish ==
    /\ pc = "finish"
    /\ out' = Append(out, [kind |-> "Finished generating template.", path |-> <<>>])
    /\ pc' = "done"
    /\ UNCHANGED <<dirs, files, tmpl, base_path, stack, ops, runs, dirs0, files0>>

Next ==
    \/ Start
    \/ ForItem
    \/ Return
    \/ BranchMakedirs
    \/ BranchPrint
    \/ BranchRecurse
    \/ LeafMakedirs
    \/ LeafPrint
    \/ WriteFile
    \/ FilePrint
    \/ LeafDone
    \/ Finish

\* ------------------------------------------------------------------------
\* The filesystem before the first run.

\* A name the template does not use.
keep == <<"k", "e", "e", "p">>

\* The texts a file may hold before the run: empty, the placeholder text
\* itself, a shorter other text, a longer other text.
OldTexts(fname) ==
    {<<>>, file_text(fname), <<"x">>, file_text(fname) \o <<"x">>}

\* The entries that may be there before the run: a directory or a file at
\* the base path, at one of its ancestors, at a template path, or at an
\* unrelated name inside the base directory or a template directory.
Seeds(base, structure) ==
    LET D == DirPaths(base, structure)
        F == FilePaths(base, structure)
        B == Prefixes(base) \ {<<>>}
        K == {join(d, keep) : d \in D \cup {base}}
    IN       {[path |-> p, isdir |-> TRUE, text |-> <<>>] : p \in B \cup D \cup F \cup K}
        \cup {[path |-> p, isdir |-> FALSE, text |-> <<"x">>] : p \in B \cup D \cup K}
        \cup {[path |-> p, isdir |-> FALSE, text |-> t] :
                  <<p, t>> \in UNION {{f} \X OldTexts(Last(f)) : f \in F}}

\* The subsets of S of at most n elements.
RECURSIVE UpTo(_, _)
UpTo(S, n) ==
    IF n = 0 THEN {{}}
    ELSE LET R == UpTo(S, n - 1) IN R \cup {A \cup {x} : A \in R, x \in S}

\* A file is inside directories only, and a path holds one entry.
PreDirs(S) ==
    {<<>>} \cup {s.path : s \in {t \in S : t.isdir}}
           \cup UNION {Prefixes(s.path) \ {s.path} : s \in S}

PreFiles(S) ==
    [p \in {s.path : s \in {t \in S : ~t.isdir}} |->
        (CHOOSE s \in S : s.path = p /\ ~s.isdir).text]

Consistent(S) ==
    /\ \A s, t \in S : s.path = t.path => s = t
    /\ \A s \in S : ~s.isdir => s.path \notin PreDirs(S)

InitWith(base, structure, S) ==
    /\ Consistent(S)
    /\ dirs = PreDirs(S)
    /\ files = PreFiles(S)
    /\ tmpl = structure
    /\ base_path = base
    /\ pc = "idle"
    /\ stack = <<>>
    /\ out = <<>>
    /\ ops = <<>>
    /\ runs = 0
    /\ dirs0 = PreDirs(S)
    /\ files0 = PreFiles(S)

\* The paths at which several entries may be there together: a top-level
\* mapping, a nested mapping, a folder of files, the empty mapping, the
\* first, a middle and the last file, the base path and its ancestor, and
\* unrelated names in the base directory and in the empty mapping.
CorePaths ==
    LET semester == join(join(template_root, University), Semester_1)
        cs101 == join(semester, Computer_Science_101)
    IN  {target_vault_dir, template_root,
         join(template_root, University), semester, join(semester, Mathematics),
         join(template_root, Archive),
         join(cs101, Syllabus_md), join(cs101, Notes_md),
         join(join(join(template_root, Notes), Journal), Date_2024_01_01_md),
         join(template_root, keep), join(join(template_root, Archive), keep)}

\* create_template(template_root) with the template of the source, on a
\* filesystem that holds the root and either any one of the entries of
\* Seeds, or up to MaxPre entries at the paths of CorePaths.
Init ==
    LET All == Seeds(template_root, template)
        Core == {s \in All : s.path \in CorePaths}
    IN  \E S \in UpTo(Core, MaxPre) \cup {{s} : s \in All} :
            InitWith(template_root, template, S)

Spec == Init /\ [][Next]_vars

\* ------------------------------------------------------------------------
\* build_structure on other structures: one branch holding one leaf with a
\* file list of one name, the name any valid path segment over Alphabet of
\* at most MaxLen characters.

Alphabet == {"a", "_", ".", "m", "d"}

FileNames ==
    UNION {[1..n -> Alphabet] : n \in 1..MaxLen} \ {<<".">>, <<".", ".">>}

InitAny ==
    \E fname \in FileNames :
        InitWith(template_root,
                 << <<Work, Dict(<< <<Alpha, List(<<fname>>)>> >>)>> >>,
                 {[path |-> target_vault_dir, isdir |-> TRUE, text |-> <<>>]})

SpecAny == InitAny /\ [][Next]_vars

\* ------------------------------------------------------------------------
\* Vocabulary of the properties.

\* The directories and the files the template declares under the base path.
TDirs == DirPaths(base_path, tmpl)
TFiles == FilePaths(base_path, tmpl)

\* The declared directories that are mappings without items.
RECURSIVE EmptyBranches(_, _)
EmptyBranches(current_path, structure) ==
    UNION {
        LET p == join(current_path, structure[k][1])
            c == structure[k][2]
        IN  IF c.type # "dict" THEN {}
            ELSE IF c.value = <<>> THEN {p}
            ELSE EmptyBranches(p, c.value)
        : k \in 1..Len(structure) }

Entries == dirs \cup DOMAIN files
Entries0 == dirs0 \cup DOMAIN files0

Succeeded(k) == ops[k].err = "ok"

IsFinishLine(line) == line.kind = "Finished generating template."

\* The title as specified: a trailing ".md" stripped if present, then every
\* underscore replaced by a space.
SpecTitle(fname) ==
    LET n == Len(fname)
        stem == IF n >= 3 /\ SubSeq(fname, n - 2, n) = dot_md
                THEN SubSeq(fname, 1, n - 3) ELSE fname
    IN  [k \in 1..Len(stem) |-> IF stem[k] = "_" THEN " " ELSE stem[k]]

SpecText(fname) ==
    <<"#", " ">> \o SpecTitle(fname) \o <<"\n", "\n">>
        \o Template_content_for \o fname \o <<".">>

\* ------------------------------------------------------------------------
\* C1: for every file name of a Leaf of any valid template, also one that
\* holds ".md" elsewhere than at its end or more than once, the text written
\* is "# " + title + "\n\n" + "Template content for " + name + ".", the title
\* being the name without a trailing ".md" and with spaces for underscores.
C1_ContentFormat ==
    \A k \in DOMAIN ops :
        (ops[k].op = "write" /\ Succeeded(k)) =>
            files[ops[k].path] = SpecText(Last(ops[k].path))

\* ------------------------------------------------------------------------
\* C2: after a run in which nothing failed, every key of the template, at
\* every nesting level, is a directory at the base path joined with the keys
\* leading to it; a mapping without items ("Archive") has its directory, and
\* the run put nothing into it.
C2_DirectoriesExist ==
    pc = "done" =>
        /\ \A d \in TDirs : d \in dirs
        /\ \A d \in EmptyBranches(base_path, tmpl) :
              /\ \A p \in Entries : IsProperPrefix(d, p) => p \in Entries0
              /\ \A k \in DOMAIN ops : ~IsProperPrefix(d, ops[k].path)

\* A finished first run on a filesystem that held the root only.
C2_Witness ==
    /\ pc = "done"
    /\ runs = 1
    /\ dirs0 = {<<>>}
    /\ join(base_path, Archive) \in dirs
    /\ join(join(join(base_path, University), Semester_1), Physics) \in dirs

\* C3: after a run in which nothing failed, every file name of every Leaf is
\* a regular file directly inside the Leaf's directory, none is skipped, and
\* no file appeared anywhere else.
C3_FilesExist ==
    pc = "done" =>
        /\ \A f \in TFiles : f \in DOMAIN files /\ Front(f) \in dirs
        /\ {ops[k].path : k \in {n \in DOMAIN ops : ops[n].op = "write"}} = TFiles
        /\ (DOMAIN files \ DOMAIN files0) \subseteq TFiles
        /\ LET f == join(join(join(join(base_path, University), Semester_1),
                              Computer_Science_101), Syllabus_md)
           IN  f \in TFiles =>
                   files[f] = <<"#", " ", "S", "y", "l", "l", "a", "b", "u", "s", "\n", "\n">>
                                  \o Template_content_for \o Syllabus_md \o <<".">>

\* A finished first run that had to create every file.
C3_Witness ==
    /\ pc = "done"
    /\ runs = 1
    /\ DOMAIN files0 = {}
    /\ TFiles # {}
    /\ TFiles \subseteq DOMAIN files

\* C4: whatever a file at a template-declared file path held before the run
\* (nothing, the empty text, the placeholder text, any other text of any
\* length), after a run in which nothing failed it holds exactly the
\* placeholder text.
C4_Overwritten ==
    pc = "done" => \A f \in TFiles : files[f] = file_text(Last(f))

\* A finished run that found a longer text in one of the files.
C4_Witness ==
    /\ pc = "done"
    /\ \E f \in TFiles \cap DOMAIN files0 :
           /\ Len(files0[f]) > Len(file_text(Last(f)))
           /\ files[f] # files0[f]

\* C5: a second run right after a finished one meets no error caused by the
\* directories and files of the first (only an injected fault can stop it),
\* and when it finishes the filesystem is what it was after the first run.
C5_Idempotent ==
    runs >= 2 =>
        /\ \A k \in DOMAIN ops : ops[k].err \in {"ok", "fault"}
        /\ pc = "done" => (dirs = dirs0 /\ files = files0)

\* A finished second run.
C5_Witness ==
    /\ pc = "done"
    /\ runs = 2
    /\ Len(ops) = Cardinality(TDirs) + Cardinality(TFiles)

\* C6: when a directory creation or a file write fails, the error leaves
\* every frame of build_structure and create_template (no finish line is
\* printed): the failed operation is the last one of the run, and every
\* directory and file made before it stays as it was made.
C6_AbortKeepsPartialTree ==
    /\ \A k \in DOMAIN ops : ~Succeeded(k) => (k = Len(ops) /\ pc = "aborted")
    /\ pc = "aborted" =>
          /\ stack = <<>>
          /\ ops # <<>>
          /\ ~Succeeded(Len(ops))
          /\ Len(out) = Len(ops)
          /\ \A k \in DOMAIN out : ~IsFinishLine(out[k])
    /\ \A k \in DOMAIN ops : Succeeded(k) =>
          IF ops[k].op = "makedirs"
          THEN ops[k].path \in dirs
          ELSE /\ ops[k].path \in DOMAIN files
               /\ files[ops[k].path] = file_text(Last(ops[k].path))
    /\ dirs0 \subseteq dirs
    /\ DOMAIN files0 \subseteq DOMAIN files

\* A run aborted by a failed write after it had created files.
C6_Witness ==
    /\ pc = "aborted"
    /\ ops[Len(ops)].op = "write"
    /\ \E f \in TFiles : f \in DOMAIN files /\ f \notin DOMAIN files0
                            /\ files[f] = file_text(Last(f))

\* The position of a template path in the template: the index of each of
\* its segments among its siblings.
RECURSIVE Index(_, _)
Index(node, rel) ==
    IF rel = <<>> THEN <<>>
    ELSE IF node.type = "dict"
         THEN LET k == CHOOSE n \in 1..Len(node.value) : node.value[n][1] = Head(rel)
              IN  <<k>> \o Index(node.value[k][2], Tail(rel))
         ELSE <<CHOOSE n \in 1..Len(node.value) : node.value[n] = Head(rel)>>

TemplateIndex(p) == Index(Dict(tmpl), SubSeq(p, Len(base_path) + 1, Len(p)))

\* The positions of the first n operations of the run.
RECURSIVE OpsIndex(_)
OpsIndex(n) ==
    IF n = 0 THEN <<>> ELSE Append(OpsIndex(n - 1), TemplateIndex(ops[n].path))

\* Depth-first order in the mapping's order: an entry comes before its
\* descendants, and of two entries that part ways at some level the one
\* whose sibling comes first in the mapping (or in the file list) is first.
Before(a, b) ==
    \/ IsProperPrefix(a, b)
    \/ \E k \in 1..Len(a) :
          /\ k <= Len(b)
          /\ SubSeq(a, 1, k - 1) = SubSeq(b, 1, k - 1)
          /\ a[k] < b[k]

\* C7: the operations of a run come in depth-first order, siblings in the
\* mapping's order and the files of a Leaf in the order of its list; a
\* directory is ensured before a file is written into it and before any
\* directory below it is ensured.
C7_DepthFirstOrder ==
    /\ LET index == OpsIndex(Len(ops))
       IN  \A b \in DOMAIN ops : \A a \in 1..(b - 1) : Before(index[a], index[b])
    /\ \A k \in DOMAIN ops :
          Front(ops[k].path) # base_path =>
              \E m \in 1..(k - 1) :
                  /\ ops[m].op = "makedirs"
                  /\ ops[m].path = Front(ops[k].path)
                  /\ Succeeded(m)

\* A finished run: every operation of the template has been made.
C7_Witness ==
    /\ pc = "done"
    /\ Len(ops) = Cardinality(TDirs) + Cardinality(TFiles)
    /\ Len(ops) > 2

\* C8: the printed lines of a run are the start line, then one line for
\* each operation that succeeded, in the order of the operations and each
\* after its operation, then the finish line; a finished run printed one
\* line per template directory and one per template file, 2 + directories +
\* files lines in all; an aborted run printed no finish line and no line for
\* the operation that failed.
C8_Trace ==
    /\ pc # "idle" =>
          out[1] = [kind |-> "Starting template generation in", path |-> base_path]
    /\ \A k \in 2..Len(out) :
          IF IsFinishLine(out[k])
          THEN k = Len(out) /\ pc = "done"
          ELSE /\ (k - 1) \in DOMAIN ops
               /\ Succeeded(k - 1)
               /\ out[k].path = ops[k - 1].path
               /\ out[k].kind = IF ops[k - 1].op = "makedirs"
                                THEN "Created folder" ELSE "Created file"
    /\ pc = "done" =>
          /\ IsFinishLine(out[Len(out)])
          /\ Len(out) = 2 + Cardinality(TDirs) + Cardinality(TFiles)
          /\ {out[k].path : k \in {n \in DOMAIN out : out[n].kind = "Created folder"}} = TDirs
          /\ {out[k].path : k \in {n \in DOMAIN out : out[n].kind = "Created file"}} = TFiles
    /\ pc = "aborted" =>
          /\ Len(out) = Len(ops)
          /\ \A k \in DOMAIN out : ~IsFinishLine(out[k])

\* A finished run with its start line, its 37 lines and its finish line.
C8_Witness ==
    /\ pc = "done"
    /\ Len(out) > 2
    /\ IsFinishLine(out[Len(out)])

\* C9: a run, finished or aborted, deletes and renames nothing: what was
\* there before is there still, a file that is not at a template-declared
\* file path keeps its text, files appear at template-declared file paths
\* only, and directories appear only at template-declared directories, at
\* the base path and at its ancestors.
C9_Frame ==
    /\ dirs0 \subseteq dirs
    /\ DOMAIN files0 \subseteq DOMAIN files
    /\ \A f \in DOMAIN files0 : f \notin TFiles => files[f] = files0[f]
    /\ (DOMAIN files \ DOMAIN files0) \subseteq TFiles
    /\ (dirs \ dirs0) \subseteq (TDirs \cup Prefixes(base_path))
    /\ dirs \cap DOMAIN files = {}

\* A run that changed the filesystem around an unrelated file or directory.
C9_Witness ==
    /\ pc \in {"done", "aborted"}
    /\ \E p \in Entries0 \ {<<>>} : Last(p) = keep
    /\ \E f \in TFiles : f \in DOMAIN files /\ f \notin DOMAIN files0

\* C10: when a regular file is there at a path the template declares a
\* directory, ensuring that directory fails and the run aborts there: the
\* file stays as it is, no directory replaces it, and nothing is made
\* beneath it.
C10_FileInTheWay ==
    \A d \in TDirs \cap DOMAIN files0 :
        /\ d \in DOMAIN files /\ files[d] = files0[d]
        /\ d \notin dirs
        /\ pc \notin {"finish", "done"}
        /\ \A p \in Entries : ~IsProperPrefix(d, p)
        /\ \A k \in DOMAIN ops :
              /\ ~IsProperPrefix(d, ops[k].path)
              /\ ops[k].path = d => (~Succeeded(k) /\ k = Len(ops) /\ pc = "aborted")

\* The run reached the file in the way and was aborted by it.
C10_Witness ==
    /\ pc = "aborted"
    /\ ops[Len(ops)].err = "FileExistsError"
    /\ ops[Len(ops)].path \in DOMAIN files0
    /\ Len(ops) > 1
====
